---- MODULE Spec2Model ----
(***************************************************************************)
(* A model of monon (monon/currency.py, monon/money.py): currencies bound  *)
(* to a metadata provider, decimal quantization, and Money values with     *)
(* their arithmetic operators and operation logs.                          *)
(*                                                                         *)
(* Decimal values are exact: a finite value is a ratio num/den of units of *)
(* 10^-FracDigits, and NaN, sNaN and Infinity are values of their own.  A  *)
(* stored amount is such a value with den = 1.  The sign of a zero is not  *)
(* kept: Decimal compares -0 and 0 equal and nothing modelled here reads   *)
(* it.  Text is over ASCII and Latin-1 (without y-diaeresis, whose capital *)
(* lies outside Latin-1), so the only decimal digits are 0-9.  Python      *)
(* objects that are mutable and shared (the operations list of a Money)    *)
(* live in a heap and are referred to by their index, so that aliasing is  *)
(* kept.                                                                   *)
(***************************************************************************)
EXTENDS Integers, Sequences, FiniteSets, TLC

VARIABLES
    default_provider,   \* Currency._default_provider
    currencies,         \* the Currency objects constructed so far
    monies,             \* the Money object each program variable is bound to
    heap,               \* the operations lists: heap[i] is one list object
    last,               \* the last call: operation, arguments, outcome
    budget,             \* the number of operations the run may record
    qcall               \* the last quantize_amount call: arguments and result

vars == <<default_provider, currencies, monies, heap, last, budget, qcall>>

(***************************************************************************)
(* Bounds of the model.                                                    *)
(***************************************************************************)
\* Amounts are counted in units of 10^-FracDigits.
FracDigits == 2
\* The number of operations recorded, in all operation logs, in one run.
MaxOps == 4
\* The same in a long run, which draws its arguments from fewer values.
MaxLongOps == 5
\* The number of Currency objects built in one run of the currency machine.
MaxCurrencies == 2

RECURSIVE Pow10(_)
Pow10(n) == IF n = 0 THEN 1 ELSE 10 * Pow10(n - 1)

Unit == Pow10(FracDigits)

Abs(n) == IF n < 0 THEN -n ELSE n

(***************************************************************************)
(* Text.  A Python str is a sequence of one-character strings.             *)
(***************************************************************************)
Lower == <<"a","b","c","d","e","f","g","h","i","j","k","l","m",
           "n","o","p","q","r","s","t","u","v","w","x","y","z">>
Upper == <<"A","B","C","D","E","F","G","H","I","J","K","L","M",
           "N","O","P","Q","R","S","T","U","V","W","X","Y","Z">>

\* The lowercase letters of Latin-1 that have a one-character capital in it
LowerLatin1 == <<"à","á","â","ã","ä","å","æ","ç","è","é","ê","ë","ì",
                 "í","î","ï","ð","ñ","ò","ó","ô","õ","ö","ø","ù","ú",
                 "û","ü","ý","þ">>
UpperLatin1 == <<"À","Á","Â","Ã","Ä","Å","Æ","Ç","È","É","Ê","Ë","Ì",
                 "Í","Î","Ï","Ð","Ñ","Ò","Ó","Ô","Õ","Ö","Ø","Ù","Ú",
                 "Û","Ü","Ý","Þ">>

Occurs(c, table) == \E i \in 1..Len(table) : table[i] = c

IndexOf(c, table) == CHOOSE i \in 1..Len(table) : table[i] = c

\* str.upper() on one character: the characters it becomes.  The sharp s
\* becomes SS and the micro sign the Greek capital mu.
UpperChar(c) ==
    IF c = "ß" THEN <<"S", "S">>
    ELSE IF c = "µ" THEN <<"Μ">>
    ELSE IF Occurs(c, Lower) THEN <<Upper[IndexOf(c, Lower)]>>
    ELSE IF Occurs(c, LowerLatin1) THEN <<UpperLatin1[IndexOf(c, LowerLatin1)]>>
    ELSE <<c>>

\* str.upper()
RECURSIVE StrUpper(_)
StrUpper(s) == IF Len(s) = 0 THEN <<>> ELSE UpperChar(Head(s)) \o StrUpper(Tail(s))

\* The characters str.strip() removes: tab, line feed, vertical tab, form
\* feed, carriage return, the four separators 1C-1F, space, next line (85)
\* and no-break space (A0)
Whitespace == {"\t", "\n", "", "\f", "\r", "", "", "", "", " ", "", " "}

RECURSIVE LStrip(_)
LStrip(s) == IF Len(s) > 0 /\ Head(s) \in Whitespace THEN LStrip(Tail(s)) ELSE s

RECURSIVE RStrip(_)
RStrip(s) ==
    IF Len(s) > 0 /\ s[Len(s)] \in Whitespace THEN RStrip(SubSeq(s, 1, Len(s) - 1)) ELSE s

Digits == <<"0","1","2","3","4","5","6","7","8","9">>

IsDigit(c) == Occurs(c, Digits)

AllDigits(s) == \A i \in 1..Len(s) : IsDigit(s[i])

DigitVal(c) == IndexOf(c, Digits) - 1

RECURSIVE DigitsVal(_)
DigitsVal(s) ==
    IF Len(s) = 0 THEN 0
    ELSE 10 * DigitsVal(SubSeq(s, 1, Len(s) - 1)) + DigitVal(s[Len(s)])

(***************************************************************************)
(* Decimal values.  special is "" for a finite value, the exact ratio      *)
(* num/den of units with den > 0; for a NaN or an sNaN, neg is its sign    *)
(* and num its payload.                                                    *)
(***************************************************************************)
Finite(n, d) == [special |-> "", neg |-> FALSE, num |-> n, den |-> d]

Special(kind, sign, payload) ==
    [special |-> kind, neg |-> sign < 0, num |-> payload, den |-> 1]

Zero == Finite(0, 1)

IsFinite(v) == v.special = ""

IsNaN(v) == v.special = "NaN"

(***************************************************************************)
(* Decimal(text).  Whitespace is stripped at both ends, then underscores   *)
(* are dropped everywhere; letters match in either case.  What is left is  *)
(*     [sign] (digits [. [digits]] | . digits) [e [sign] digits]           *)
(*   | [sign] inf | [sign] infinity | [sign] nan [digits]                  *)
(*   | [sign] snan [digits]                                                *)
(* The result is [ok, val]; any other text raises a DecimalException       *)
(* (ok = FALSE).                                                           *)
(***************************************************************************)
NotDecimal == [ok |-> FALSE, val |-> Zero]

Parsed(v) == [ok |-> TRUE, val |-> v]

\* An ASCII letter in lower case
AsciiLower(c) == IF Occurs(c, Upper) THEN Lower[IndexOf(c, Upper)] ELSE c

NotUnderscore(c) == c # "_"

AsciiLowered(s) == [i \in 1..Len(s) |-> AsciiLower(s[i])]

\* The text the number is read from
Normalized(s) == AsciiLowered(SelectSeq(s, NotUnderscore))

IsPrefix(p, s) == Len(s) >= Len(p) /\ SubSeq(s, 1, Len(p)) = p

\* The digits of the coefficient with scale digits after the point
Scaled(sign, mag, scale) ==
    IF scale >= 0 THEN Parsed(Finite(sign * mag * Unit, Pow10(scale)))
    ELSE Parsed(Finite(sign * mag * Unit * Pow10(-scale), 1))

\* The integer and the fractional digits, and the exponent
ParseParts(sign, int, frac, exp) ==
    IF Len(int) + Len(frac) = 0 THEN NotDecimal
    ELSE Scaled(sign, DigitsVal(int \o frac), Len(frac) - exp)

\* The coefficient, split at its decimal point, the one element of dots
ParseAt(sign, body, dots, exp) ==
    IF \/ Cardinality(dots) > 1
       \/ \E i \in 1..Len(body) : i \notin dots /\ ~IsDigit(body[i])
    THEN NotDecimal
    ELSE IF dots = {} THEN ParseParts(sign, body, <<>>, exp)
         ELSE ParseParts(sign,
                         SubSeq(body, 1, (CHOOSE i \in dots : TRUE) - 1),
                         SubSeq(body, (CHOOSE i \in dots : TRUE) + 1, Len(body)),
                         exp)

ParseBody(sign, body, exp) ==
    ParseAt(sign, body, {i \in 1..Len(body) : body[i] = "."}, exp)

\* The digits of the exponent
ParseExpDigits(sign, body, esign, digits) ==
    IF Len(digits) = 0 \/ ~AllDigits(digits) THEN NotDecimal
    ELSE ParseBody(sign, body, esign * DigitsVal(digits))

\* The exponent, with its sign
ParseExp(sign, body, exp) ==
    IF Len(exp) > 0 /\ exp[1] \in {"-", "+"}
    THEN ParseExpDigits(sign, body, IF exp[1] = "-" THEN -1 ELSE 1, Tail(exp))
    ELSE ParseExpDigits(sign, body, 1, exp)

\* A number, split at its exponent mark, the one element of marks
ParseNumber(sign, body, marks) ==
    IF marks = {} THEN ParseBody(sign, body, 0)
    ELSE IF Cardinality(marks) > 1 THEN NotDecimal
    ELSE ParseExp(sign,
                  SubSeq(body, 1, (CHOOSE i \in marks : TRUE) - 1),
                  SubSeq(body, (CHOOSE i \in marks : TRUE) + 1, Len(body)))

\* A NaN or an sNaN and its payload
ParseNaN(kind, sign, payload) ==
    IF AllDigits(payload) THEN Parsed(Special(kind, sign, DigitsVal(payload)))
    ELSE NotDecimal

\* The text after the sign
ParseUnsigned(sign, body) ==
    IF IsPrefix(<<"n","a","n">>, body)
    THEN ParseNaN("NaN", sign, SubSeq(body, 4, Len(body)))
    ELSE IF IsPrefix(<<"s","n","a","n">>, body)
    THEN ParseNaN("sNaN", sign, SubSeq(body, 5, Len(body)))
    ELSE IF body \in {<<"i","n","f">>, <<"i","n","f","i","n","i","t","y">>}
    THEN Parsed(Special("Infinity", sign, 0))
    ELSE ParseNumber(sign, body, {i \in 1..Len(body) : body[i] = "e"})

ParseSigned(s) ==
    IF Len(s) > 0 /\ s[1] \in {"-", "+"}
    THEN ParseUnsigned(IF s[1] = "-" THEN -1 ELSE 1, Tail(s))
    ELSE ParseUnsigned(1, s)

ParseDecimal(s) == ParseSigned(Normalized(RStrip(LStrip(s))))

\* The Decimal a literal with at most FracDigits fractional digits denotes
D(s) == Finite(ParseDecimal(s).val.num \div ParseDecimal(s).val.den, 1)

(***************************************************************************)
(* Decimal arithmetic.  An operation with a NaN operand returns the first  *)
(* NaN among its operands; Money amounts are never sNaN or infinite.       *)
(***************************************************************************)
\* a + b
DecAdd(a, b) ==
    IF IsNaN(a) THEN a ELSE IF IsNaN(b) THEN b
    ELSE Finite(a.num * b.den + b.num * a.den, a.den * b.den)

\* a - b
DecSub(a, b) ==
    IF IsNaN(a) THEN a ELSE IF IsNaN(b) THEN b
    ELSE Finite(a.num * b.den - b.num * a.den, a.den * b.den)

\* a * b, in units: (a.num * b.num) / Unit, a factor that is a whole number
\* of units being divided by the unit first
DecMul(a, b) ==
    IF IsNaN(a) THEN a ELSE IF IsNaN(b) THEN b
    ELSE IF b.num % Unit = 0 THEN Finite(a.num * (b.num \div Unit), a.den * b.den)
    ELSE IF a.num % Unit = 0 THEN Finite((a.num \div Unit) * b.num, a.den * b.den)
    ELSE Finite(a.num * b.num, a.den * b.den * Unit)

\* a / b: division by zero raises DivisionByZero, and InvalidOperation when
\* the dividend is zero too.  The quotient is kept exact: Decimal rounds it
\* to 28 significant digits, which no quantization to these decimal places
\* can tell from the exact value.
DecDiv(a, b) ==
    IF IsNaN(a) THEN [err |-> "ok", val |-> a]
    ELSE IF IsNaN(b) THEN [err |-> "ok", val |-> b]
    ELSE IF b.num = 0
         THEN [err |-> IF a.num = 0 THEN "InvalidOperation" ELSE "DivisionByZero",
               val |-> Zero]
         ELSE [err |-> "ok",
               val |-> IF b.num < 0
                       THEN Finite(-(a.num * b.den * Unit), -(a.den * b.num))
                       ELSE Finite(a.num * b.den * Unit, a.den * b.num)]

\* a == b: a NaN equals nothing
DecEq(a, b) == IsFinite(a) /\ IsFinite(b) /\ a.num * b.den = b.num * a.den

(***************************************************************************)
(* Providers.  "default" is DefaultCurrenciesProvider; "whole" and         *)
(* "strict" are custom CurrenciesProvider subclasses: "whole" has no       *)
(* decimal places and inherits get_rounding, "strict" has one decimal      *)
(* place, rounds down and validates two codes only.                        *)
(***************************************************************************)
DefaultDecimalPlaces == 2

Providers == {"default", "whole", "strict"}

RoundingModes == {"ROUND_UP", "ROUND_DOWN", "ROUND_CEILING", "ROUND_FLOOR",
                  "ROUND_HALF_UP", "ROUND_HALF_EVEN"}

\* provider.get_decimal_places(isocode)
get_decimal_places(p, isocode) ==
    CASE p = "default" -> DefaultDecimalPlaces
      [] p = "whole"   -> 0
      [] p = "strict"  -> 1

\* A provider that rounds halves away from zero whatever the currency
get_rounding_half_up(p, isocode) == "ROUND_HALF_UP"

\* provider.get_rounding(isocode): ROUND_UP unless the provider overrides it
get_rounding(p, isocode) ==
    IF p = "strict" THEN "ROUND_DOWN" ELSE "ROUND_UP"

\* provider.validate_currency(isocode): TRUE when it does not raise
validate_currency(p, isocode) ==
    IF p = "strict" THEN isocode \in {<<"U","S","D">>, <<"E","U","R">>} ELSE TRUE

(***************************************************************************)
(* Decimal.quantize: the exact value num/den units (den > 0) rounded to a  *)
(* multiple of quantum units.  t is the number of whole quanta in the      *)
(* magnitude and r the rest, in units of 1/den.  A NaN is returned as it   *)
(* is; an sNaN or an infinity raises InvalidOperation.                     *)
(***************************************************************************)
RoundMagnitude(negative, t, r, step, rounding) ==
    CASE rounding = "ROUND_UP"        -> IF r = 0 THEN t ELSE t + 1
      [] rounding = "ROUND_DOWN"      -> t
      [] rounding = "ROUND_CEILING"   -> IF negative \/ r = 0 THEN t ELSE t + 1
      [] rounding = "ROUND_FLOOR"     -> IF negative /\ r # 0 THEN t + 1 ELSE t
      [] rounding = "ROUND_HALF_UP"   -> IF 2 * r >= step THEN t + 1 ELSE t
      [] rounding = "ROUND_HALF_EVEN" ->
             IF 2 * r > step \/ (2 * r = step /\ t % 2 = 1) THEN t + 1 ELSE t

QuantizeRatio(num, den, quantum, rounding) ==
    (IF num < 0 THEN -1 ELSE 1) * quantum
      * RoundMagnitude(num < 0, Abs(num) \div (den * quantum),
                       Abs(num) % (den * quantum), den * quantum, rounding)

\* amount.quantize(quantum, rounding=rounding)
Quantize(v, quantum, rounding) ==
    IF IsFinite(v)
    THEN [err |-> "ok", val |-> Finite(QuantizeRatio(v.num, v.den, quantum, rounding), 1)]
    ELSE IF IsNaN(v) THEN [err |-> "ok", val |-> v]
    ELSE [err |-> "InvalidOperation", val |-> Zero]

\* Currency._get_quantizer: Decimal(10) ** -decimal_places, in units
get_quantizer(currency) ==
    Pow10(FracDigits - get_decimal_places(currency.provider, currency.isocode))

NoRounding == "None"

\* Currency.quantize_amount(amount, force_rounding=None): [err, val]
quantize_amount(currency, amount, force_rounding) ==
    Quantize(amount, get_quantizer(currency),
             IF force_rounding # NoRounding THEN force_rounding
             ELSE get_rounding(currency.provider, currency.isocode))

(***************************************************************************)
(* Values handed to the library by its caller.                             *)
(*   Str(s)    a Python str                                                *)
(*   Num(s)    a numbers.Number whose str() is s (int, float, Decimal,     *)
(*             complex)                                                    *)
(*   Dec(v)    a Decimal the library computed itself.  Its str() is exact, *)
(*             so Decimal(str(.)) gives the value back                     *)
(*   Ref(v)    the Money object bound to the program variable v            *)
(*   Cur(c, p) a Currency object with isocode c and provider p             *)
(***************************************************************************)
NoSlot == "-"
NoProvider == "None"

Str(s)    == [kind |-> "str",      str |-> s,    dec |-> Zero, slot |-> NoSlot, provider |-> NoProvider]
Num(s)    == [kind |-> "num",      str |-> s,    dec |-> Zero, slot |-> NoSlot, provider |-> NoProvider]
Dec(v)    == [kind |-> "decimal",  str |-> <<>>, dec |-> v,    slot |-> NoSlot, provider |-> NoProvider]
Ref(v)    == [kind |-> "money",    str |-> <<>>, dec |-> Zero, slot |-> v,      provider |-> NoProvider]
Cur(c, p) == [kind |-> "currency", str |-> c,    dec |-> Zero, slot |-> NoSlot, provider |-> p]
NoArg     == [kind |-> "none",     str |-> <<>>, dec |-> Zero, slot |-> NoSlot, provider |-> NoProvider]

\* isinstance(x, Number)
IsNumber(x) == x.kind \in {"num", "decimal"}

\* Decimal(str(amount)) of a caller's value
ToDecimal(x) ==
    IF x.kind = "decimal" THEN Parsed(x.dec) ELSE ParseDecimal(x.str)

(***************************************************************************)
(* Currency                                                                *)
(***************************************************************************)
NoCurrency == [isocode |-> <<>>, provider |-> NoProvider]

\* Currency.clean_isocode
clean_isocode(isocode) ==
    IF isocode.kind # "str" \/ Len(isocode.str) # 3
    THEN [err |-> "InvalidCurrency", val |-> <<>>]
    ELSE [err |-> "ok", val |-> StrUpper(isocode.str)]

\* A _set_provider that binds the default provider whatever it is given
set_provider_ignoring(provider, dflt) == dflt

\* Currency._set_provider, reading Currency.get_default_provider()
set_provider(provider, dflt) ==
    IF provider # NoProvider THEN provider ELSE dflt

\* Currency.__init__ once the provider is bound and the isocode cleaned
CurrencyValidated(bound, cleaned) ==
    IF cleaned.err # "ok" THEN [err |-> cleaned.err, val |-> NoCurrency]
    ELSE IF ~validate_currency(bound, cleaned.val)
         THEN [err |-> "InvalidCurrency", val |-> NoCurrency]
         ELSE [err |-> "ok", val |-> [isocode |-> cleaned.val, provider |-> bound]]

\* Currency.__init__(isocode, provider=None)
CurrencyInit(isocode, provider, dflt) ==
    CurrencyValidated(set_provider(provider, dflt), clean_isocode(isocode))

\* Currency.__eq__: by isocode only
CurrencyEq(c1, c2) == c1.isocode = c2.isocode

(***************************************************************************)
(* Money and its operation log                                             *)
(***************************************************************************)
NoLog == 0

\* The Money a program variable holds before anything is bound to it.
NoMoney == [amount |-> Zero, currency |-> NoCurrency, ops |-> NoLog]

\* copy(operand) of a Money: a new object with the same attributes, so the
\* copy's operations attribute is the same list object as the original's.
\* A Money copied before its operations attribute is set has none (NoLog).
CopyMoney(m) ==
    [kind |-> "money", amount |-> m.amount, currency |-> m.currency, ops |-> m.ops]

\* copy(operand) of a Decimal: the same immutable value
CopyDecimal(d) ==
    [kind |-> "decimal", amount |-> d, currency |-> NoCurrency, ops |-> NoLog]

\* MoneyOperation.__init__(operator, *operands), operands already copied
MoneyOperation(operator, operands) ==
    [operator |-> operator, operands |-> operands]

\* Money.clean_amount once Decimal(str(amount)) is evaluated: the
\* DecimalException of the conversion becomes InvalidAmount, the exception
\* of quantize_amount leaves as it is
QuantizedDecimal(d, currency) ==
    IF ~d.ok THEN [err |-> "InvalidAmount", val |-> Zero]
    ELSE quantize_amount(currency, d.val, NoRounding)

\* Money.clean_amount(amount, currency)
clean_amount(amount, currency) == QuantizedDecimal(ToDecimal(amount), currency)

\* Money.clean_currency(currency)
clean_currency(currency, dflt) ==
    IF currency.kind = "currency"
    THEN [err |-> "ok", val |-> [isocode |-> currency.str, provider |-> currency.provider]]
    ELSE CurrencyInit(currency, NoProvider, dflt)

\* The Currency object c as an argument
AsArg(c) == Cur(c.isocode, c.provider)

\* An exception leaves the function: nothing is returned
Raise(err, h) == [err |-> err, money |-> NoMoney, heap |-> h]

\* Money.__init__, line 74: self, which has no operations attribute yet, is
\* copied into the INITIALIZATION operation of its new operations list
MoneyBound(h, self) ==
    [err   |-> "ok",
     money |-> [self EXCEPT !.ops = Len(h) + 1],
     heap  |-> Append(h, <<MoneyOperation("init", <<CopyMoney(self)>>)>>)]

\* Money.__init__, line 73, with the cleaned amount
MoneyWithAmount(h, amt, currency) ==
    IF amt.err # "ok" THEN Raise(amt.err, h)
    ELSE MoneyBound(h, [amount |-> amt.val, currency |-> currency, ops |-> NoLog])

\* Money.__init__, line 72, with the cleaned currency
MoneyWithCurrency(h, amount, cur) ==
    IF cur.err # "ok" THEN Raise(cur.err, h)
    ELSE MoneyWithAmount(h, clean_amount(amount, cur.val), cur.val)

\* Money.__init__(amount, currency) with the heap h: the new Money and the
\* heap holding its operations list
MoneyInit(h, amount, currency, dflt) ==
    MoneyWithCurrency(h, amount, clean_currency(currency, dflt))

\* An _add_operation that inserts the operation at the head of the list
add_operation_at_head(h, self, operator, operands) ==
    [h EXCEPT ![self.ops] = <<MoneyOperation(operator, operands)>> \o @]

\* Money._add_operation(operator, *operands)
add_operation(h, self, operator, operands) ==
    [h EXCEPT ![self.ops] = Append(@, MoneyOperation(operator, operands))]

\* A _clean_operand without the currency comparison
clean_operand_any_currency(h, m, self, other, dflt) ==
    IF IsNumber(other) THEN MoneyInit(h, other, AsArg(self.currency), dflt)
    ELSE IF other.kind # "money" THEN Raise("InvalidOperand", h)
    ELSE [err |-> "ok", money |-> m[other.slot], heap |-> h]

\* Money._clean_operand(other); m is the binding of the program variables
clean_operand(h, m, self, other, dflt) ==
    IF IsNumber(other) THEN MoneyInit(h, other, AsArg(self.currency), dflt)
    ELSE IF other.kind # "money" THEN Raise("InvalidOperand", h)
    ELSE IF ~CurrencyEq(m[other.slot].currency, self.currency)
         THEN Raise("CurrencyMismatch", h)
         ELSE [err |-> "ok", money |-> m[other.slot], heap |-> h]

\* result._add_operation(operator, *operands) on the Money just built
Recorded(r, operator, operands) ==
    IF r.err # "ok" THEN r
    ELSE [r EXCEPT !.heap = add_operation(r.heap, r.money, operator, operands)]

\* The body of __add__ and __sub__ after the operand is cleaned
Combined(h, self, other, operator, dflt) ==
    Recorded(MoneyInit(h, Dec(IF operator = "+" THEN DecAdd(self.amount, other.amount)
                                                 ELSE DecSub(self.amount, other.amount)),
                       AsArg(self.currency), dflt),
             operator, <<CopyMoney(self), CopyMoney(other)>>)

AddSubCleaned(c, self, operator, dflt) ==
    IF c.err # "ok" THEN c ELSE Combined(c.heap, self, c.money, operator, dflt)

\* Money.__add__ (operator "+") and Money.__sub__ (operator "-")
add_sub(h, m, self, other, operator, dflt) ==
    AddSubCleaned(clean_operand(h, m, self, other, dflt), self, operator, dflt)

RSubCleaned(c, self, dflt) ==
    IF c.err # "ok" THEN c ELSE Combined(c.heap, c.money, self, "-", dflt)

\* Money.__rsub__: other.__sub__(self) with the cleaned other.  self is a
\* Money of other's currency code, which other's _clean_operand returns as is.
rsub(h, m, self, other, dflt) ==
    RSubCleaned(clean_operand(h, m, self, other, dflt), self, dflt)

\* An in-place body that quantizes the amount it assigns
InPlaceCleaned_requantized(c, self, operator) ==
    IF c.err # "ok" THEN c
    ELSE [err   |-> "ok",
          money |-> [self EXCEPT !.amount =
                        quantize_amount(self.currency,
                                        IF operator = "+" THEN DecAdd(@, c.money.amount)
                                                          ELSE DecSub(@, c.money.amount),
                                        NoRounding).val],
          heap  |-> add_operation(c.heap, self, operator,
                                  <<CopyMoney(self), CopyMoney(c.money)>>)]

\* The body of __iadd__ and __isub__ after the operand is cleaned: the
\* operation is recorded, then self.amount is assigned
InPlaceCleaned(c, self, operator) ==
    IF c.err # "ok" THEN c
    ELSE [err   |-> "ok",
          money |-> [self EXCEPT !.amount = IF operator = "+"
                                            THEN DecAdd(@, c.money.amount)
                                            ELSE DecSub(@, c.money.amount)],
          heap  |-> add_operation(c.heap, self, operator,
                                  <<CopyMoney(self), CopyMoney(c.money)>>)]

\* An __iadd__/__isub__ that records the operation before it cleans the operand
iadd_isub_record_first(h, m, self, other, operator, dflt) ==
    InPlaceCleaned(clean_operand(add_operation(h, self, operator, <<CopyMoney(self)>>),
                                 m, self, other, dflt),
                   self, operator)

\* Money.__iadd__ (operator "+") and Money.__isub__ (operator "-"): the
\* mutated self and the heap
iadd_isub(h, m, self, other, operator, dflt) ==
    InPlaceCleaned(clean_operand(h, m, self, other, dflt), self, operator)

\* The body of __mul__ with the cleaned scalar
MulCleaned(h, self, c, dflt) ==
    IF c.err # "ok" THEN Raise(c.err, h)
    ELSE Recorded(MoneyInit(h, Dec(DecMul(self.amount, c.val)), AsArg(self.currency), dflt),
                  "*", <<CopyMoney(self), CopyDecimal(c.val)>>)

\* A __mul__ that multiplies by the scalar cut to whole units, not cleaned
mul_scalar_cut(h, self, other, dflt) ==
    IF ~IsNumber(other) THEN Raise("InvalidOperand", h)
    ELSE MulCleaned(h, self,
                    [err |-> IF ToDecimal(other).ok THEN "ok" ELSE "InvalidAmount",
                     val |-> [ToDecimal(other).val EXCEPT
                                 !.num = @ \div ToDecimal(other).val.den, !.den = 1]],
                    dflt)

\* Money.__mul__
mul(h, self, other, dflt) ==
    IF ~IsNumber(other) THEN Raise("InvalidOperand", h)
    ELSE MulCleaned(h, self, clean_amount(other, self.currency), dflt)

\* The body of __truediv__ with the quotient
DivQuotient(h, self, c, q, dflt) ==
    IF q.err # "ok" THEN Raise(q.err, h)
    ELSE Recorded(MoneyInit(h, Dec(q.val), AsArg(self.currency), dflt),
                  "/", <<CopyMoney(self), CopyDecimal(c.val)>>)

\* The body of __truediv__ with the cleaned scalar
DivCleaned(h, self, c, dflt) ==
    IF c.err # "ok" THEN Raise(c.err, h)
    ELSE DivQuotient(h, self, c, DecDiv(self.amount, c.val), dflt)

\* Money.__truediv__
truediv(h, self, other, dflt) ==
    DivCleaned(h, self, clean_amount(other, self.currency), dflt)

\* Money.__neg__: self * -1
neg(h, self, dflt) == mul(h, self, Num(<<"-", "1">>), dflt)

(***************************************************************************)
(* The caller's inputs                                                     *)
(***************************************************************************)
\* The program's variables: a and b are bound by Money(...), a first, and r
\* by the operators that return a Money.
Constructed == {"a", "b"}
Result == "r"
Slots == Constructed \cup {Result}

USD == <<"U","S","D">>
EUR == <<"E","U","R">>

\* Money(amount, ...): 5, the text ' 125E-2' (that is 1.25) and the text 'abc'
AmountArgs == {Num(<<"5">>), Str(<<" ","1","2","5","E","-","2">>), Str(<<"a","b","c">>)}

\* Money(..., currency): a code, or a Currency built with a custom provider
CurrencyArgs == {Str(<<"u","s","d">>), Cur(USD, "whole"), Cur(EUR, "default")}

\* Operands that are not Money objects: the numbers 5, 0, 1e-05, 1j (a
\* complex), float('nan') and float('inf') with the text str() gives of
\* them, and the text '5'
ScalarArgs == {Num(<<"5">>), Num(<<"0">>), Num(<<"1","e","-","0","5">>),
               Num(<<"1","j">>), Num(<<"n","a","n">>), Num(<<"i","n","f">>),
               Str(<<"5">>)}

\* The variables bound to a Money
Bound == {v \in Slots : monies[v] # NoMoney}

Operands == ScalarArgs \cup {Ref(v) : v \in Bound}

NoCall == [op |-> "none", recv |-> NoSlot, dst |-> NoSlot, x |-> NoArg,
           cur |-> NoArg, outcome |-> "ok"]

Call(op, recv, dst, x, cur) ==
    [op |-> op, recv |-> recv, dst |-> dst, x |-> x, cur |-> cur, outcome |-> "ok"]

RECURSIVE TotalOps(_)
TotalOps(h) == IF Len(h) = 0 THEN 0 ELSE Len(h[1]) + TotalOps(Tail(h))

(***************************************************************************)
(* The Money machine: one action per operation of Money.  A call that      *)
(* returns binds its result to the variable dst.  A call that raises binds *)
(* nothing, and the exception ends the run: no action follows it.  A run   *)
(* records budget operations at most, and makes no call once it has.       *)
(***************************************************************************)
Running == last.outcome = "ok" /\ TotalOps(heap) < budget

Return(r, dst, call) ==
    /\ Running
    /\ TotalOps(r.heap) <= budget
    /\ heap' = r.heap
    /\ monies' = IF r.err = "ok" THEN [monies EXCEPT ![dst] = r.money] ELSE monies
    /\ last' = [call EXCEPT !.outcome = r.err]
    /\ UNCHANGED <<default_provider, currencies, budget, qcall>>

\* dst = Money(amount, currency)
NewMoney(dst, amount, cur) ==
    /\ monies[dst] = NoMoney
    /\ dst = "b" => monies["a"] # NoMoney
    /\ Return(MoneyInit(heap, amount, cur, default_provider), dst,
              Call("new", NoSlot, dst, amount, cur))

\* r = recv + x
Add(recv, x) ==
    Return(add_sub(heap, monies, monies[recv], x, "+", default_provider), Result,
           Call("add", recv, Result, x, NoArg))

\* r = x + recv: Money.__radd__ is self.__add__(other)
RAdd(recv, x) ==
    Return(add_sub(heap, monies, monies[recv], x, "+", default_provider), Result,
           Call("radd", recv, Result, x, NoArg))

\* recv += x
IAdd(recv, x) ==
    Return(iadd_isub(heap, monies, monies[recv], x, "+", default_provider), recv,
           Call("iadd", recv, recv, x, NoArg))

\* r = recv - x
Sub(recv, x) ==
    Return(add_sub(heap, monies, monies[recv], x, "-", default_provider), Result,
           Call("sub", recv, Result, x, NoArg))

\* r = x - recv
RSub(recv, x) ==
    Return(rsub(heap, monies, monies[recv], x, default_provider), Result,
           Call("rsub", recv, Result, x, NoArg))

\* recv -= x
ISub(recv, x) ==
    Return(iadd_isub(heap, monies, monies[recv], x, "-", default_provider), recv,
           Call("isub", recv, recv, x, NoArg))

\* r = recv * x
Mul(recv, x) ==
    Return(mul(heap, monies[recv], x, default_provider), Result,
           Call("mul", recv, Result, x, NoArg))

\* r = x * recv: Money.__rmul__ is self.__mul__(other)
RMul(recv, x) ==
    Return(mul(heap, monies[recv], x, default_provider), Result,
           Call("rmul", recv, Result, x, NoArg))

\* r = recv / x
Div(recv, x) ==
    Return(truediv(heap, monies[recv], x, default_provider), Result,
           Call("div", recv, Result, x, NoArg))

\* r = -recv
Neg(recv) ==
    Return(neg(heap, monies[recv], default_provider), Result,
           Call("neg", recv, Result, NoArg, NoArg))

NoQCall == [amount |-> <<>>, currency |-> NoCurrency, force |-> NoRounding,
            result |-> [err |-> "ok", val |-> Zero]]

Started(n) ==
    /\ default_provider = "default"
    /\ currencies = <<>>
    /\ monies = [v \in Slots |-> NoMoney]
    /\ heap = <<>>
    /\ last = NoCall
    /\ qcall = NoQCall
    /\ budget = n

Init == Started(MaxOps)

Next ==
    \/ \E dst \in Constructed, amount \in AmountArgs, cur \in CurrencyArgs :
           NewMoney(dst, amount, cur)
    \/ \E recv \in Bound, x \in Operands : Add(recv, x)
    \/ \E recv \in Bound, x \in Operands : RAdd(recv, x)
    \/ \E recv \in Bound, x \in Operands : IAdd(recv, x)
    \/ \E recv \in Bound, x \in Operands : Sub(recv, x)
    \/ \E recv \in Bound, x \in Operands : RSub(recv, x)
    \/ \E recv \in Bound, x \in Operands : ISub(recv, x)
    \/ \E recv \in Bound, x \in Operands : Mul(recv, x)
    \/ \E recv \in Bound, x \in Operands : RMul(recv, x)
    \/ \E recv \in Bound, x \in ScalarArgs : Div(recv, x)
    \/ \E recv \in Bound : Neg(recv)

Spec == Init /\ [][Next]_vars

(***************************************************************************)
(* Long runs of the Money machine: the same operations, one more of them   *)
(* in a run, on the variables a and b with fewer arguments: the amounts 5, *)
(* ' 125E-2' and float('nan'), US dollars with two decimal places and with *)
(* none, and the operands 5, a and b.                                      *)
(***************************************************************************)
LongAmountArgs == {Num(<<"5">>), Str(<<" ","1","2","5","E","-","2">>),
                   Num(<<"n","a","n">>)}

LongCurrencyArgs == {Str(<<"u","s","d">>), Cur(USD, "whole")}

LongScalarArgs == {Num(<<"5">>)}

LongBound == Bound \cap Constructed

LongOperands == LongScalarArgs \cup {Ref(v) : v \in LongBound}

LongInit == Started(MaxLongOps)

LongNext ==
    \/ \E dst \in Constructed, amount \in LongAmountArgs, cur \in LongCurrencyArgs :
           NewMoney(dst, amount, cur)
    \/ \E recv \in LongBound, x \in LongOperands : Add(recv, x)
    \/ \E recv \in LongBound, x \in LongOperands : RAdd(recv, x)
    \/ \E recv \in LongBound, x \in LongOperands : IAdd(recv, x)
    \/ \E recv \in LongBound, x \in LongOperands : Sub(recv, x)
    \/ \E recv \in LongBound, x \in LongOperands : RSub(recv, x)
    \/ \E recv \in LongBound, x \in LongOperands : ISub(recv, x)
    \/ \E recv \in LongBound, x \in LongOperands : Mul(recv, x)
    \/ \E recv \in LongBound, x \in LongOperands : RMul(recv, x)
    \/ \E recv \in LongBound, x \in LongScalarArgs : Div(recv, x)
    \/ \E recv \in LongBound : Neg(recv)

LongSpec == LongInit /\ [][LongNext]_vars

(***************************************************************************)
(* The Currency machine: the default-provider slot and the construction of *)
(* Currency objects.                                                       *)
(***************************************************************************)
ProviderArgs == Providers \cup {NoProvider}

\* Currency(isocode, ...): codes of three characters, of two and of four,
\* a code the strict provider rejects, codes with a letter outside ASCII
\* (the second has four characters once in upper case), and a value that is
\* not a str
IsocodeArgs == {Str(<<"u","s","d">>), Str(EUR), Str(<<"C","L">>),
                Str(<<"C","L","P","F">>), Str(<<"y","e","n">>),
                Str(<<"é","u","r">>), Str(<<"a","ß","b">>), Num(<<"8","4","0">>)}

\* Currency.set_default_provider(provider)
SetDefaultProvider(p) ==
    /\ Running
    /\ default_provider' = p
    /\ last' = Call("set_default_provider", NoSlot, NoSlot, NoArg, Cur(<<>>, p))
    /\ UNCHANGED <<currencies, monies, heap, budget, qcall>>

\* Currency(isocode, provider); provider = NoProvider when it is omitted
NewCurrency(isocode, provider) ==
    LET r == CurrencyInit(isocode, provider, default_provider)
    IN /\ Running
       /\ Len(currencies) < MaxCurrencies
       /\ currencies' = IF r.err = "ok" THEN Append(currencies, r.val) ELSE currencies
       /\ last' = [Call("currency", NoSlot, NoSlot, isocode, Cur(<<>>, provider))
                       EXCEPT !.outcome = r.err]
       /\ UNCHANGED <<default_provider, monies, heap, budget, qcall>>

CNext ==
    \/ \E p \in Providers : SetDefaultProvider(p)
    \/ \E isocode \in IsocodeArgs, provider \in ProviderArgs :
           NewCurrency(isocode, provider)

CSpec == Init /\ [][CNext]_vars

(***************************************************************************)
(* Currency.quantize_amount as a function of its inputs.                   *)
(***************************************************************************)
\* The amounts, as Decimal literals: plain ones, ones with an exponent, with
\* an underscore and whitespace, a NaN and an infinity
QAmounts == {<<"4","1","9","1","E","-","3">>, <<" ","4",".","2","_","0","1","\n">>,
             <<"1","e","1">>, <<"N","a","N">>, <<"-","I","n","f","i","n","i","t","y">>,
             <<"4",".","1","9","1">>, <<"4",".","2","0","1">>, <<"4",".","2","0">>,
             <<"-","4",".","1","9","1">>, <<"-","4",".","2","0","1">>,
             <<"0">>, <<"5">>, <<"0",".","0","0","5">>, <<"-","0",".","0","0","5">>,
             <<"0",".","0","1","5">>, <<"0",".","0","0","5","1">>,
             <<"4",".","5">>, <<"-","4",".","5">>, <<"3",".","5">>,
             <<"0",".","2","5">>, <<"0",".","0","0","0","1">>}

QCurrencies == {[isocode |-> USD, provider |-> p] : p \in Providers}

ForceArgs == RoundingModes \cup {NoRounding}

\* currency.quantize_amount(Decimal(amount), force_rounding=force)
QuantizeAmount(amount, currency, force) ==
    /\ qcall = NoQCall
    /\ qcall' = [amount |-> amount, currency |-> currency, force |-> force,
                 result |-> quantize_amount(currency, ParseDecimal(amount).val, force)]
    /\ UNCHANGED <<default_provider, currencies, monies, heap, last, budget>>

QNext ==
    \E amount \in QAmounts, currency \in QCurrencies, force \in ForceArgs :
        QuantizeAmount(amount, currency, force)

QSpec == Init /\ [][QNext]_vars

(***************************************************************************)
(* Vocabulary of the properties                                            *)
(***************************************************************************)
CleaningOps    == {"add", "radd", "sub", "rsub", "iadd", "isub"}
InPlaceOps     == {"iadd", "isub"}
ValueReturning == {"add", "radd", "sub", "rsub", "mul", "rmul", "div", "neg"}
ArithmeticOps  == ValueReturning \cup InPlaceOps

\* The MoneyOperator each operation records
OperatorOf(op) ==
    CASE op \in {"add", "radd", "iadd"} -> "+"
      [] op \in {"sub", "rsub", "isub"} -> "-"
      [] op \in {"mul", "rmul", "neg"}  -> "*"
      [] op = "div"                     -> "/"

\* The operators of a log, in order
Operators(log) == [j \in 1..Len(log) |-> log[j].operator]

\* Money.__eq__ between two Money objects
MoneyEq(m1, m2) == DecEq(m1.amount, m2.amount) /\ CurrencyEq(m1.currency, m2.currency)

\* The amount is a multiple of 10^-decimal_places of the Money's own currency
Quantized(m) ==
    /\ IsFinite(m.amount)
    /\ m.amount.den = 1
    /\ m.amount.num % get_quantizer(m.currency) = 0

\* Decimal(str(x)) does not raise
Parses(x) == ParseDecimal(x.str).ok

\* Decimal(str(x)) is a value quantize accepts: a finite one or a NaN
Cleans(x) == Parses(x) /\ ParseDecimal(x.str).val.special \in {"", "NaN"}

\* A number the caller passes, cleaned as clean_amount cleans it: parsed to
\* an exact decimal, then quantized in the currency with its provider's rounding
Cleaned(x, currency) ==
    quantize_amount(currency, ParseDecimal(x.str).val, NoRounding).val

(***************************************************************************)
(* C5.  quantize_amount of a decimal value returns a multiple of           *)
(* 10^-decimal_places adjacent to the amount, on the side the rounding     *)
(* mode names: force_rounding when it is given, the provider's rounding    *)
(* otherwise.  With the default provider (2 places, ROUND_UP) a            *)
(* representable amount is returned unchanged and any other goes to the    *)
(* adjacent multiple of 0.01 farther from zero; 4.191 gives 4.20, and      *)
(* 4.201 forced down gives 4.20.                                           *)
(***************************************************************************)
QRounded(n, d, q, res, mode) ==
    /\ res % q = 0
    /\ Abs(res * d - n) < q * d
    /\ mode = "ROUND_UP"      => Abs(res) * d >= Abs(n)
    /\ mode = "ROUND_DOWN"    => Abs(res) * d <= Abs(n)
    /\ mode = "ROUND_CEILING" => res * d >= n
    /\ mode = "ROUND_FLOOR"   => res * d <= n
    /\ mode = "ROUND_HALF_UP" =>
          /\ 2 * Abs(res * d - n) <= q * d
          /\ 2 * Abs(res * d - n) = q * d => Abs(res) * d > Abs(n)
    /\ mode = "ROUND_HALF_EVEN" =>
          /\ 2 * Abs(res * d - n) <= q * d
          /\ 2 * Abs(res * d - n) = q * d => (res \div q) % 2 = 0

\* C5: every quantize_amount call on a decimal value returns the multiple of the
\* currency's quantum that the rounding in force selects
C5_Quantization ==
    (qcall # NoQCall /\ IsFinite(ParseDecimal(qcall.amount).val)) =>
        LET n    == ParseDecimal(qcall.amount).val.num
            d    == ParseDecimal(qcall.amount).val.den
            p    == qcall.currency.provider
            q    == Pow10(FracDigits - get_decimal_places(p, qcall.currency.isocode))
            res  == qcall.result.val.num
            cent == Pow10(FracDigits - 2)
        IN /\ qcall.result.err = "ok"
           /\ IsFinite(qcall.result.val)
           /\ qcall.result.val.den = 1
           /\ QRounded(n, d, q, res,
                       IF qcall.force # NoRounding THEN qcall.force
                       ELSE get_rounding(p, qcall.currency.isocode))
           /\ (p = "default" /\ qcall.force = NoRounding) =>
                 IF n % (d * cent) = 0 THEN res * d = n
                 ELSE /\ res % cent = 0
                      /\ Abs(res) * d > Abs(n)
                      /\ Abs(res) * d - Abs(n) < cent * d
                      /\ (res < 0) = (n < 0)
           /\ (p = "default" /\ qcall.force = NoRounding
                 /\ qcall.amount = <<"4",".","1","9","1">>)
                 => qcall.result.val = D(<<"4",".","2","0">>)
           /\ (p = "default" /\ qcall.force = "ROUND_DOWN"
                 /\ qcall.amount = <<"4",".","2","0","1">>)
                 => qcall.result.val = D(<<"4",".","2","0">>)

\* Currency('USD').quantize_amount(Decimal('4.191')) has returned 4.20
C5_Witness ==
    /\ qcall.amount = <<"4",".","1","9","1">>
    /\ qcall.currency.provider = "default"
    /\ qcall.force = NoRounding
    /\ qcall.result = [err |-> "ok", val |-> D(<<"4",".","2","0">>)]

(***************************************************************************)
(* C8.  A Currency constructed without a provider is bound to the default  *)
(* provider of the moment, one constructed with a provider to that         *)
(* provider, and set_default_provider changes the binding of no Currency   *)
(* that exists.                                                            *)
(***************************************************************************)
C8_Step ==
    /\ Len(currencies') >= Len(currencies)
    /\ \A i \in 1..Len(currencies) : currencies'[i] = currencies[i]
    /\ Len(currencies') > Len(currencies) =>
          /\ Len(currencies') = Len(currencies) + 1
          /\ last'.op = "currency"
          /\ currencies'[Len(currencies')].provider =
                IF last'.cur.provider = NoProvider THEN default_provider
                ELSE last'.cur.provider
    /\ last'.op = "set_default_provider" =>
          /\ default_provider' = last'.cur.provider
          /\ currencies' = currencies
    /\ last'.op = "currency" => default_provider' = default_provider

\* C8: every step binds a new Currency as C8_Step states and rebinds none
C8_DefaultProviderSlot == [][C8_Step]_vars

C8_Witness ==
    /\ last.op = "set_default_provider"
    /\ Len(currencies) = 2
    /\ currencies[1].provider = "default"
    /\ currencies[2].provider = "whole"
    /\ default_provider = "strict"

(***************************************************************************)
(* C1.  Operand cleaning in add, reverse add, subtract, reverse subtract   *)
(* and the two in-place forms.  A number is promoted to a new Money of the *)
(* receiver's currency holding the number cleaned in that currency, and    *)
(* the call fails as Money(x, currency) does when the number cannot be     *)
(* cleaned: with InvalidAmount when its text is no decimal, with the       *)
(* InvalidOperation of quantize when it is infinite.  A Money of another   *)
(* currency code makes the call fail with CurrencyMismatch; any other      *)
(* operand makes it fail with InvalidOperand; a call that fails returns no *)
(* Money.                                                                  *)
(***************************************************************************)
C1_Step ==
    last'.op \in CleaningOps =>
        LET self == monies[last'.recv]
            x    == last'.x
        IN /\ (IsNumber(x) /\ Cleans(x)) =>
                 /\ last'.outcome = "ok"
                 /\ LET log   == heap'[monies'[last'.dst].ops]
                        other == log[Len(log)].operands[IF last'.op = "rsub" THEN 1 ELSE 2]
                    IN /\ other.kind = "money"
                       /\ other.currency = self.currency
                       /\ other.amount = Cleaned(x, self.currency)
                       /\ other.ops > Len(heap)
                       /\ Operators(heap'[other.ops]) = <<"init">>
           /\ (IsNumber(x) /\ ~Parses(x)) =>
                 last'.outcome = "InvalidAmount" /\ monies' = monies
           /\ (IsNumber(x) /\ Parses(x) /\ ~Cleans(x)) =>
                 last'.outcome = "InvalidOperation" /\ monies' = monies
           /\ (x.kind = "money" /\ monies[x.slot].currency.isocode # self.currency.isocode) =>
                 last'.outcome = "CurrencyMismatch" /\ monies' = monies
           /\ (x.kind = "money" /\ monies[x.slot].currency.isocode = self.currency.isocode) =>
                 last'.outcome = "ok"
           /\ (x.kind # "money" /\ ~IsNumber(x)) =>
                 last'.outcome = "InvalidOperand" /\ monies' = monies

\* C1: every operation that cleans an operand promotes a number, and rejects a
\* Money of another currency code or a value of another type, as C1_Step states
C1_OperandCleaning == [][C1_Step]_vars

\* Money(5 or 1.25, 'usd').add(Money(..., 'EUR')) has failed with CurrencyMismatch
C1_Witness ==
    /\ last.op = "add"
    /\ last.outcome = "CurrencyMismatch"
    /\ last.recv = "a" /\ last.x = Ref("b")
    /\ monies["a"].currency.isocode = USD
    /\ monies["b"].currency.isocode = EUR

(***************************************************************************)
(* C2.  Addition is commutative between Money of the same currency code,   *)
(* whichever providers their currencies are bound to: after r = a + b,     *)
(* b + a succeeds and equals r under Money equality.                       *)
(***************************************************************************)
C2_Commutative ==
    (/\ last.op = "add" /\ last.outcome = "ok"
     /\ last.x.kind = "money"
     /\ last.recv # Result /\ last.x.slot # Result) =>
        LET ba == add_sub(heap, monies, monies[last.x.slot], Ref(last.recv), "+",
                          default_provider)
        IN ba.err = "ok" /\ MoneyEq(monies[Result], ba.money)

(***************************************************************************)
(* C3.  A Money just constructed has the log [INIT].  Every arithmetic     *)
(* operation that succeeds appends exactly one operation, with its         *)
(* operator: the Money returned has the log [INIT, op], the Money mutated  *)
(* in place its previous log followed by op.  Every log starts with INIT   *)
(* and its entries keep their position and operator.                       *)
(***************************************************************************)
C3_Step ==
    /\ Len(heap') >= Len(heap)
    /\ \A i \in 1..Len(heap) :
          /\ Len(heap'[i]) >= Len(heap[i])
          /\ \A j \in 1..Len(heap[i]) : heap'[i][j].operator = heap[i][j].operator
    /\ \A i \in 1..Len(heap') : Len(heap'[i]) >= 1 /\ heap'[i][1].operator = "init"
    /\ (last'.outcome = "ok" /\ last'.op = "new") =>
          /\ monies'[last'.dst].ops > Len(heap)
          /\ Operators(heap'[monies'[last'.dst].ops]) = <<"init">>
    /\ (last'.outcome = "ok" /\ last'.op \in ValueReturning) =>
          /\ monies'[last'.dst].ops > Len(heap)
          /\ Operators(heap'[monies'[last'.dst].ops]) = <<"init", OperatorOf(last'.op)>>
    /\ (last'.outcome = "ok" /\ last'.op \in InPlaceOps) =>
          /\ monies'[last'.recv].ops = monies[last'.recv].ops
          /\ Operators(heap'[monies[last'.recv].ops])
                = Append(Operators(heap[monies[last'.recv].ops]), OperatorOf(last'.op))

\* C3: every step keeps each log's entries and appends the operation performed
C3_HistoryGrowth == [][C3_Step]_vars

\* a -= x has succeeded on a Money already added to in place
C3_Witness ==
    /\ last.op = "isub" /\ last.outcome = "ok"
    /\ Operators(heap[monies[last.recv].ops]) = <<"init", "+", "-">>

(***************************************************************************)
(* C4.  An operand recorded in an operation shares nothing mutable with    *)
(* the original: an in-place operation changes no recorded Money operand,  *)
(* neither its amount, its currency nor its operation log.                 *)
(***************************************************************************)
C4_Step ==
    last'.op \in InPlaceOps =>
        \A i \in 1..Len(heap) : \A j \in 1..Len(heap[i]) :
            \A k \in 1..Len(heap[i][j].operands) :
                LET snapshot == heap[i][j].operands[k]
                IN (snapshot.kind = "money" /\ snapshot.ops # NoLog) =>
                      /\ heap'[i][j].operands[k] = snapshot
                      /\ heap'[snapshot.ops] = heap[snapshot.ops]

\* C4: no in-place operation changes an operand a log has recorded
C4_SnapshotIsolation == [][C4_Step]_vars

(***************************************************************************)
(* C6.  m * s for a number s: s is cleaned to c (parsed, then quantized in *)
(* m's currency); the result is a new Money of m's currency; the operation *)
(* recorded is MULTIPLICATION with a copy of m and c as operands; and      *)
(* Money(5, 'USD') * 5 is Money(25, 'USD').  The amount of the result is   *)
(* m.amount * c quantized in m's currency (exact = FALSE), where the claim *)
(* as written has m.amount * c itself (exact = TRUE).                      *)
(***************************************************************************)
C6_Step(exact) ==
    (last'.op \in {"mul", "rmul"} /\ IsNumber(last'.x) /\ Cleans(last'.x)) =>
        LET self    == monies[last'.recv]
            c       == Cleaned(last'.x, self.currency)
            product == DecMul(self.amount, c)
            result  == monies'[last'.dst]
        IN /\ last'.outcome = "ok"
           /\ result.currency = self.currency
           /\ IF exact
              THEN IsFinite(product) =>
                      /\ IsFinite(result.amount)
                      /\ result.amount.num * product.den = product.num * result.amount.den
              ELSE result.amount = quantize_amount(self.currency, product, NoRounding).val
           /\ result.ops > Len(heap)
           /\ Len(heap'[result.ops]) = 2
           /\ heap'[result.ops][2]
                 = MoneyOperation("*", <<CopyMoney(self), CopyDecimal(c)>>)
           /\ (self.amount = D(<<"5">>) /\ last'.x.str = <<"5">>) =>
                 result.amount = D(<<"2","5">>)

\* C6: m * s is a new Money of m's currency holding m.amount * c quantized,
\* with the operation (*, copy of m, c) recorded
C6_Multiply == [][C6_Step(FALSE)]_vars

\* C6 as stated: the amount of m * s is m.amount * c exactly
C6_MultiplyExact == [][C6_Step(TRUE)]_vars

\* Money(' 125E-2', 'usd') * 1e-05: c is 0.01, and 0.0125 is stored as 0.02
C6_Witness ==
    /\ last.op = "mul" /\ last.outcome = "ok"
    /\ last.recv = "a" /\ last.x = Num(<<"1","e","-","0","5">>)
    /\ monies["a"].amount = D(<<"1",".","2","5">>)
    /\ monies["a"].currency.provider = "default"
    /\ monies[Result].amount = D(<<"0",".","0","2">>)
    /\ heap[monies[Result].ops][2].operands[2].amount = D(<<"0",".","0","1">>)

(***************************************************************************)
(* C7.  Multiply and divide validate their scalar alike: an operand that   *)
(* is not a number makes both fail with InvalidOperand.                    *)
(***************************************************************************)
C7_ScalarValidation ==
    (last.op \in {"mul", "rmul", "div"} /\ ~IsNumber(last.x)) =>
        last.outcome = "InvalidOperand"

(***************************************************************************)
(* C9.  An arithmetic operation that fails has changed nothing: every      *)
(* Money keeps its amount, its currency and its operation log.             *)
(***************************************************************************)
C9_Step ==
    (last'.op \in ArithmeticOps /\ last'.outcome # "ok") =>
        monies' = monies /\ heap' = heap

\* C9: an arithmetic operation that fails leaves every Money and log as it was
C9_NoPartialMutation == [][C9_Step]_vars

\* a -= b has failed on a currency mismatch, a's log holding an earlier a += x
C9_Witness ==
    /\ last.op = "isub" /\ last.outcome = "CurrencyMismatch"
    /\ Operators(heap[monies[last.recv].ops]) = <<"init", "+">>

(***************************************************************************)
(* C10.  Stored amounts and quantization.  As written: every Money's       *)
(* amount is a multiple of 10^-decimal_places of its own currency          *)
(* (C10_AllQuantized).  As the code has it (C10_Quantized): a Money that   *)
(* is constructed or returned by an operator holds a NaN exactly when the  *)
(* amount it is constructed from, its receiver's amount or its operand is  *)
(* a NaN, and is quantized otherwise, whether its receiver was quantized   *)
(* or not; an in-place operation stores amount + other.amount (or -) as it *)
(* is, in the same currency, so that the receiver is quantized afterwards  *)
(* exactly when that sum is a multiple of its quantum, which it is         *)
(* whenever the receiver was quantized and other.amount is a multiple of   *)
(* the receiver's quantum.                                                 *)
(***************************************************************************)
\* C10 as stated: every Money's amount is a multiple of its currency's quantum
C10_AllQuantized == \A v \in Slots : monies[v] # NoMoney => Quantized(monies[v])

\* The amount of the operand of the call, cleaned in the currency when it is
\* not a Money
OperandAmount(call, currency) ==
    IF call.x.kind = "money" THEN monies[call.x.slot].amount
    ELSE Cleaned(call.x, currency)

\* v is a multiple of the quantum of the currency
MultipleOfQuantum(v, currency) ==
    IsFinite(v) /\ v.den = 1 /\ v.num % get_quantizer(currency) = 0

C10_Step ==
    \A v \in Slots :
        monies'[v] # monies[v] =>
            IF last'.op \in InPlaceOps
            THEN LET self  == monies[v]
                     other == OperandAmount(last', self.currency)
                     exact == IF last'.op = "iadd"
                              THEN DecAdd(self.amount, other)
                              ELSE DecSub(self.amount, other)
                 IN /\ v = last'.recv
                    /\ monies'[v].currency = self.currency
                    /\ monies'[v].amount = exact
                    /\ Quantized(monies'[v]) = MultipleOfQuantum(exact, self.currency)
                    /\ (Quantized(self) /\ MultipleOfQuantum(other, self.currency))
                          => Quantized(monies'[v])
            ELSE /\ v = last'.dst
                 /\ IsNaN(monies'[v].amount) =
                       \/ IsNaN(OperandAmount(last', monies'[v].currency))
                       \/ last'.op # "new" /\ IsNaN(monies[last'.recv].amount)
                 /\ ~IsNaN(monies'[v].amount) => Quantized(monies'[v])

\* C10: every Money built or returned is quantized, or a NaN that came in; an
\* in-place operation stores the exact sum or difference
C10_Quantized == [][C10_Step]_vars

\* a += b has left 6.25 in a, whose currency has no decimal places, and
\* r = a + b is 8: the sum 7.50 quantized in a's currency
C10_Witness ==
    /\ last.op = "add" /\ last.outcome = "ok"
    /\ last.recv = "a" /\ last.x = Ref("b")
    /\ monies["a"].currency.provider = "whole"
    /\ monies["a"].amount = D(<<"6",".","2","5">>)
    /\ monies["b"].amount = D(<<"1",".","2","5">>)
    /\ ~Quantized(monies["a"])
    /\ monies[Result].amount = D(<<"8">>)
    /\ Quantized(monies[Result])

====
